---------------------------- MODULE Spec2Model ----------------------------
(***************************************************************************)
(* A model of the portfolio page's logic:                                  *)
(*   - scoreAnswer / normalizeText   (src/src/app/InterviewSimulator.tsx)  *)
(*   - the InterviewSimulator component's state and event handlers         *)
(*   - answerQuery and the AIAssistant component that calls it             *)
(*                                                                         *)
(* JavaScript strings are TLA+ strings; a character is a string of length  *)
(* one (Ch).  JavaScript numbers that go through division are exact        *)
(* rationals [num, den] in lowest terms (an integer has den = 1).  The     *)
(* IEEE double evaluation of the score was compared with the exact one for *)
(* keyword lists of up to 8 entries and texts of up to 420 words: the two  *)
(* differ only where the exact sum is a tie x.5, the keyword count is 3 or *)
(* 6 and the word count is a multiple of 12 that is at least 120 (the      *)
(* double sum falls just below the tie and is rounded down).  None of the  *)
(* inputs enumerated below is of that kind.                                *)
(***************************************************************************)
EXTENDS Integers, Sequences, FiniteSets, TLC

VARIABLES
    currentIdx,   \* useState(0): index of the question shown
    listening,    \* useState(false)
    transcript,   \* useState(''): the textarea's text
    history,      \* useState([]): the submitted answers
    recState,     \* the SpeechRecognition object behind recogRef.current
    clearedSinceStart, \* history variable, read by no action: Submit Answer
                  \* or Reset has cleared the transcript since the recording
                  \* that is still able to deliver results was started
    query,        \* AIAssistant: useState('')
    answer,       \* AIAssistant: useState('')
    source,       \* AIAssistant: useState('')
    call,         \* one call of scoreAnswer: its arguments and its result
    comp          \* two evaluations of the score composition on given counts

vars == <<currentIdx, listening, transcript, history, recState,
          clearedSinceStart, query, answer, source, call, comp>>

uiVars == <<currentIdx, listening, transcript, history, recState,
            clearedSinceStart>>
asstVars == <<query, answer, source>>

(***************************************************************************)
(* Bounds of the model.                                                    *)
(***************************************************************************)
MaxLen == 3          \* longest enumerated transcript, in characters
MaxKeywords == 2     \* longest enumerated keyword list
MaxWords == 6        \* largest enumerated small word count
MaxListLen == 4      \* longest keyword list in the composition check
MaxHistory == 5      \* submitted answers kept before Submit is disabled
MaxTranscript == 70  \* longest transcript the textarea is let grow to

(***************************************************************************)
(* Strings.                                                                *)
(***************************************************************************)
Ch(s, i) == SubSeq(s, i, i)

Min(a, b) == IF a <= b THEN a ELSE b
Max(a, b) == IF a >= b THEN a ELSE b

UpperAlpha == "ABCDEFGHIJKLMNOPQRSTUVWXYZ"
LowerAlpha == "abcdefghijklmnopqrstuvwxyz"
DigitChars == "0123456789"

UpperLetters == {Ch(UpperAlpha, i) : i \in 1..26}
LowerLetters == {Ch(LowerAlpha, i) : i \in 1..26}
Digits == {Ch(DigitChars, i) : i \in 1..10}

\* The class \w of a JavaScript regular expression without the u flag.
WordChars == UpperLetters \cup LowerLetters \cup Digits \cup {"_"}
\* The class \s (the members that occur in the model).
SpaceChars == {" ", "\t", "\n", "\r"}

\* String.prototype.toLowerCase on one character.
LowerCh(c) ==
    IF c \in UpperLetters
    THEN Ch(LowerAlpha, CHOOSE i \in 1..26 : Ch(UpperAlpha, i) = c)
    ELSE c

\* String.prototype.toLowerCase, character by character (the recursion
\* halves the string to keep the evaluation shallow).
RECURSIVE toLowerCase(_)
toLowerCase(s) ==
    IF s = "" THEN ""
    ELSE IF Len(s) = 1 THEN LowerCh(s)
    ELSE toLowerCase(SubSeq(s, 1, Len(s) \div 2))
         \o toLowerCase(SubSeq(s, (Len(s) \div 2) + 1, Len(s)))

\* String.prototype.includes
includes(s, k) ==
    \E i \in 0..(Len(s) - Len(k)) : SubSeq(s, i + 1, i + Len(k)) = k

\* s.replace(/[^\w\s]/g, '')
RECURSIVE StripNonWord(_)
StripNonWord(s) ==
    IF s = "" THEN ""
    ELSE IF Len(s) = 1 THEN (IF s \in WordChars \cup SpaceChars THEN s ELSE "")
    ELSE StripNonWord(SubSeq(s, 1, Len(s) \div 2))
         \o StripNonWord(SubSeq(s, (Len(s) \div 2) + 1, Len(s)))

normalizeText(s) == StripNonWord(toLowerCase(s))

\* text.split(/\s+/).filter(Boolean): the maximal runs of non-whitespace,
\* in order.  Runs(s) also tells whether s begins and ends inside a run, so
\* that the runs of two halves can be joined.
JoinRuns(a, b) ==
    IF a.runs # <<>> /\ b.runs # <<>> /\ a.open /\ b.lead
    THEN [lead |-> a.lead, open |-> b.open,
          runs |-> SubSeq(a.runs, 1, Len(a.runs) - 1)
                   \o <<a.runs[Len(a.runs)] \o b.runs[1]>>
                   \o SubSeq(b.runs, 2, Len(b.runs))]
    ELSE [lead |-> a.lead, open |-> b.open, runs |-> a.runs \o b.runs]

RECURSIVE Runs(_)
Runs(s) ==
    IF Len(s) = 1
    THEN (IF s \in SpaceChars
          THEN [lead |-> FALSE, open |-> FALSE, runs |-> <<>>]
          ELSE [lead |-> TRUE, open |-> TRUE, runs |-> <<s>>])
    ELSE JoinRuns(Runs(SubSeq(s, 1, Len(s) \div 2)),
                  Runs(SubSeq(s, (Len(s) \div 2) + 1, Len(s))))

SplitWords(s) == IF s = "" THEN <<>> ELSE Runs(s).runs

\* String.prototype.trim
RECURSIVE TrimStart(_)
TrimStart(s) ==
    IF s # "" /\ Ch(s, 1) \in SpaceChars THEN TrimStart(SubSeq(s, 2, Len(s))) ELSE s

RECURSIVE TrimEnd(_)
TrimEnd(s) ==
    IF s # "" /\ Ch(s, Len(s)) \in SpaceChars
    THEN TrimEnd(SubSeq(s, 1, Len(s) - 1)) ELSE s

trim(s) == TrimEnd(TrimStart(s))

(***************************************************************************)
(* Numbers: exact rationals in lowest terms.                               *)
(***************************************************************************)
RECURSIVE Gcd(_, _)
Gcd(a, b) == IF b = 0 THEN a ELSE Gcd(b, a % b)

Abs(a) == IF a < 0 THEN -a ELSE a

Num(n, d) ==
    LET g == Gcd(Abs(n), d)
    IN  [num |-> n \div g, den |-> d \div g]

Whole(n) == [num |-> n, den |-> 1]

NumAdd(x, y) == Num(x.num * y.den + y.num * x.den, x.den * y.den)
NumSub(x, y) == Num(x.num * y.den - y.num * x.den, x.den * y.den)
NumMul(x, y) == Num(x.num * y.num, x.den * y.den)
NumLeq(x, y) == x.num * y.den <= y.num * x.den

MathMin(x, y) == IF NumLeq(x, y) THEN x ELSE y
MathMax(x, y) == IF NumLeq(x, y) THEN y ELSE x
\* Math.round: the nearest integer, a tie going up.
MathRound(x) == Whole((2 * x.num + x.den) \div (2 * x.den))

IsInteger(x) == x.den = 1

(***************************************************************************)
(* scoreAnswer (InterviewSimulator.tsx, lines 18-46).                      *)
(***************************************************************************)
fillers == <<"um", "uh", "like", "you know", "so", "actually">>

\* list.reduce((c, e) => c + (text.includes(e) ? 1 : 0), 0)
RECURSIVE CountIncluded(_, _)
CountIncluded(text, list) ==
    IF list = <<>> THEN 0
    ELSE (IF includes(text, Head(list)) THEN 1 ELSE 0)
         + CountIncluded(text, Tail(list))

\* A plausible slip: the keyword is matched as written, not lower-cased.
keywordHitsCaseSensitive(text, keywords) == CountIncluded(text, keywords)

\* line 25: the keyword hits
keywordHits(text, keywords) ==
    CountIncluded(text, [i \in 1..Len(keywords) |-> toLowerCase(keywords[i])])

\* A plausible slip: a filler is matched against the words, not the text.
fillerHitsByWord(text) ==
    Cardinality({i \in 1..Len(fillers) :
                    \E j \in 1..Len(SplitWords(text)) : SplitWords(text)[j] = fillers[i]})

\* lines 29-30: the filler count
fillerHits(text) == CountIncluded(text, fillers)

\* A plausible slip: the final Math.round is left out.
composeScoreUnrounded(wordCount, unique, hits, nKeywords, fillerCount) ==
    LET hitRatio == IF nKeywords # 0 THEN Num(hits, nKeywords) ELSE Whole(0)
        s1 == NumAdd(Whole(50), MathMin(Whole(20), NumMul(hitRatio, Whole(20))))
        s2 == NumAdd(s1, MathMin(Whole(15),
                  NumMul(Num(Min(wordCount, 200), 200), Whole(15))))
        s3 == NumSub(s2, Whole(Min(15, fillerCount * 3)))
        s4 == NumAdd(s3, MathMin(Whole(10),
                  NumMul(Num(unique, Max(1, wordCount)), Whole(10))))
    IN  [score |-> MathMax(Whole(0), MathMin(Whole(100), s4)),
         wordCount |-> wordCount, hits |-> hits, fillerCount |-> fillerCount]

\* A plausible slip: the keyword bonus is subtracted instead of added.
composeScoreMinusHits(wordCount, unique, hits, nKeywords, fillerCount) ==
    LET hitRatio == IF nKeywords # 0 THEN Num(hits, nKeywords) ELSE Whole(0)
        s1 == NumSub(Whole(50), MathMin(Whole(20), NumMul(hitRatio, Whole(20))))
        s2 == NumAdd(s1, MathMin(Whole(15),
                  NumMul(Num(Min(wordCount, 200), 200), Whole(15))))
        s3 == NumSub(s2, Whole(Min(15, fillerCount * 3)))
        s4 == NumAdd(s3, MathMin(Whole(10),
                  NumMul(Num(unique, Max(1, wordCount)), Whole(10))))
    IN  [score |-> MathMax(Whole(0), MathMin(Whole(100), MathRound(s4))),
         wordCount |-> wordCount, hits |-> hits, fillerCount |-> fillerCount]

\* A plausible slip: the variety bonus divides by wordCount + 1 to avoid 0.
composeScoreVarietyPlusOne(wordCount, unique, hits, nKeywords, fillerCount) ==
    LET hitRatio == IF nKeywords # 0 THEN Num(hits, nKeywords) ELSE Whole(0)
        s1 == NumAdd(Whole(50), MathMin(Whole(20), NumMul(hitRatio, Whole(20))))
        s2 == NumAdd(s1, MathMin(Whole(15),
                  NumMul(Num(Min(wordCount, 200), 200), Whole(15))))
        s3 == NumSub(s2, Whole(Min(15, fillerCount * 3)))
        s4 == NumAdd(s3, MathMin(Whole(10),
                  NumMul(Num(unique, wordCount + 1), Whole(10))))
    IN  [score |-> MathMax(Whole(0), MathMin(Whole(100), MathRound(s4))),
         wordCount |-> wordCount, hits |-> hits, fillerCount |-> fillerCount]

\* lines 26 and 32-45: the hit ratio, the score composition and the result
composeScore(wordCount, unique, hits, nKeywords, fillerCount) ==
    LET hitRatio == IF nKeywords # 0 THEN Num(hits, nKeywords) ELSE Whole(0)
        s1 == NumAdd(Whole(50), MathMin(Whole(20), NumMul(hitRatio, Whole(20))))
        s2 == NumAdd(s1, MathMin(Whole(15),
                  NumMul(Num(Min(wordCount, 200), 200), Whole(15))))
        s3 == NumSub(s2, Whole(Min(15, fillerCount * 3)))
        s4 == NumAdd(s3, MathMin(Whole(10),
                  NumMul(Num(unique, Max(1, wordCount)), Whole(10))))
    IN  [score |-> MathMax(Whole(0), MathMin(Whole(100), MathRound(s4))),
         wordCount |-> wordCount, hits |-> hits, fillerCount |-> fillerCount]

\* A plausible slip: the text is kept in a buffer outside the function and
\* not emptied, so that a call also scores the transcript of the call before.
scoreAnswerCarryOver(transcriptArg, keywords) ==
    LET carried == IF history = <<>> THEN ""
                   ELSE history[Len(history)].transcript \o " "
        text == normalizeText(carried \o transcriptArg)
        words == SplitWords(text)
        wordCount == Len(words)
        unique == Cardinality({words[i] : i \in 1..Len(words)})
        hits == keywordHits(text, keywords)
        fillerCount == fillerHits(text)
    IN  composeScore(wordCount, unique, hits, Len(keywords), fillerCount)

\* lines 18-46
scoreAnswer(transcriptArg, keywords) ==
    LET text == normalizeText(transcriptArg)
        words == SplitWords(text)
        wordCount == Len(words)
        unique == Cardinality({words[i] : i \in 1..Len(words)})
        hits == keywordHits(text, keywords)
        fillerCount == fillerHits(text)
    IN  composeScore(wordCount, unique, hits, Len(keywords), fillerCount)

(***************************************************************************)
(* Calls of scoreAnswer on enumerated arguments.                           *)
(***************************************************************************)
\* One character of each kind normalizeText tells apart: a lower-case
\* letter, an upper-case letter, a digit, the underscore, punctuation,
\* white space, and a letter outside ASCII.
Alphabet == {"u", "M", "7", "_", ".", " ", "é"}

RECURSIVE StringsUpTo(_)
StringsUpTo(n) ==
    IF n = 0 THEN {""}
    ELSE LET S == StringsUpTo(n - 1)
         IN  S \cup {s \o c : s \in S, c \in Alphabet}

\* Keywords: the empty string, an upper-case letter, two letters, punctuation.
KeywordPool == {"", "M", "um", "."}

RECURSIVE ListsUpTo(_)
ListsUpTo(n) ==
    IF n = 0 THEN {<<>>}
    ELSE LET S == ListsUpTo(n - 1)
         IN  S \cup {Append(l, k) : l \in S, k \in KeywordPool}

RECURSIVE Repeat(_, _)
Repeat(s, n) ==
    IF n = 0 THEN ""
    ELSE IF n % 2 = 1 THEN s \o Repeat(s, n - 1)
    ELSE LET h == Repeat(s, n \div 2) IN h \o h

\* DEFAULT_QUESTIONS (lines 9-14)
DEFAULT_QUESTIONS == <<
    [id |-> "q1", text |-> "Tell me about yourself and your recent projects.",
     keywords |-> <<"React", "Expo", "TypeScript", "delivery", "Zajel">>],
    [id |-> "q2", text |-> "How do you handle authentication and tokens in your apps?",
     keywords |-> <<"refresh", "token", "secure", "storage", ".NET">>],
    [id |-> "q3", text |-> "Describe a difficult bug you fixed and how you solved it.",
     keywords |-> <<"debug", "logs", "breakdown", "steps", "fix">>],
    [id |-> "q4", text |-> "How would you handle a difficult customer call in English?",
     keywords |-> <<"empathy", "listen", "steps", "solution", "calm">>] >>

\* The phrase of the Insert Example Phrase button (line 170)
ExamplePhrase == "I implemented authentication using refresh tokens and secure storage."

\* The word count at which the length bonus stops growing (line 35)
LengthCap == 200

ExampleInputs ==
    {<<ExamplePhrase, DEFAULT_QUESTIONS[2].keywords>>,
     <<"I used reactjs extensively", <<"React">>>>,
     <<"um so I like this", <<>>>>,
     <<"um um, so... SO what? Umbrella", <<"so", "SO", "what?">>>>,
     <<"You know, I actually like it. Uh, um, so...", <<"know", "Know", "know,">>>>,
     <<"summer_house\tis\nlikely", <<"summer", "house", "like ">>>>}
      \cup {<<"", DEFAULT_QUESTIONS[i].keywords>> : i \in 1..Len(DEFAULT_QUESTIONS)}

LongTexts ==
    {Repeat("ok ", n) : n \in (LengthCap - 1)..(LengthCap + 1)}
      \cup {"So " \o Repeat("ok ", n) : n \in (LengthCap - 2)..LengthCap}

LongInputs == LongTexts \X {<<>>, <<"OK", "no">>, <<"k s", "", "K">>}

\* Answers to the default questions that hold every keyword of the question,
\* as a sentence and as the bare list of the keywords.
KeywordEchoInputs ==
    {<<"I built Zajel, a delivery app, with React, Expo and TypeScript.",
       DEFAULT_QUESTIONS[1].keywords>>,
     <<"react expo typescript DELIVERY zajel", DEFAULT_QUESTIONS[1].keywords>>,
     <<"Refresh tokens go to secure storage; the .NET API checks each token.",
       DEFAULT_QUESTIONS[2].keywords>>,
     <<"refresh token secure storage .NET", DEFAULT_QUESTIONS[2].keywords>>,
     <<"I debug with logs: a breakdown into steps, then the fix.",
       DEFAULT_QUESTIONS[3].keywords>>,
     <<"Debug Logs Breakdown Steps Fix", DEFAULT_QUESTIONS[3].keywords>>,
     <<"With empathy I listen, stay calm, and give the solution in steps.",
       DEFAULT_QUESTIONS[4].keywords>>,
     <<"empathy,listen,steps,solution,calm", DEFAULT_QUESTIONS[4].keywords>>}

ScoreInputs ==
    (StringsUpTo(MaxLen) \X ListsUpTo(MaxKeywords)) \cup ExampleInputs \cup LongInputs
      \cup KeywordEchoInputs

NoResult == [score |-> Whole(0), wordCount |-> 0, hits |-> 0, fillerCount |-> 0]

NoCall == [transcript |-> "", keywords |-> <<>>, done |-> FALSE, result |-> NoResult]

\* The caller evaluates scoreAnswer(transcript, keywords) (as in line 108).
ScoreCall ==
    /\ ~call.done
    /\ call' = [call EXCEPT !.done = TRUE,
                            !.result = scoreAnswer(call.transcript, call.keywords)]
    /\ UNCHANGED <<uiVars, asstVars, comp>>

(***************************************************************************)
(* The score composition on enumerated counts: two evaluations that        *)
(* differ in the keyword hits only.                                        *)
(***************************************************************************)
WordCounts == (0..MaxWords) \cup {LengthCap - 1, LengthCap, LengthCap + 1}

\* The distinct-word counts a text of wc words can have.
UniqueCounts(wc) ==
    IF wc = 0 THEN {0}
    ELSE IF wc <= MaxWords THEN 1..wc
    ELSE {1, 2, wc \div 2, wc - 1, wc}

\* The filler counts a text of wc words can have: "you know" needs two words.
FillerCounts(wc) ==
    IF wc = 0 THEN {0}
    ELSE IF wc = 1 THEN 0..(Len(fillers) - 1)
    ELSE 0..Len(fillers)

NoComp == [wordCount |-> 0, unique |-> 0, fillerCount |-> 0, nKeywords |-> 0,
           hitsA |-> 0, hitsB |-> 0, done |-> FALSE,
           resA |-> NoResult, resB |-> NoResult]

\* Lines 26-45 evaluated for two calls.
ComposeCalls ==
    /\ ~comp.done
    /\ comp' = [comp EXCEPT
                  !.done = TRUE,
                  !.resA = composeScore(comp.wordCount, comp.unique, comp.hitsA,
                                        comp.nKeywords, comp.fillerCount),
                  !.resB = composeScore(comp.wordCount, comp.unique, comp.hitsB,
                                        comp.nKeywords, comp.fillerCount)]
    /\ UNCHANGED <<uiVars, asstVars, call>>

(***************************************************************************)
(* The InterviewSimulator component (lines 48-196).  A handler runs to     *)
(* completion on the state of the last render; React applies its state     *)
(* updates together.  The date of a history entry (line 114) is the wall   *)
(* clock, which nothing reads: it is left out.                             *)
(*                                                                         *)
(* recState is the recognizer: "unsupported" when the browser has none     *)
(* (recogRef.current is null), else "inactive", "listening", or "stopping" *)
(* after stop() until the recognizer has delivered what it still holds.    *)
(***************************************************************************)
questions == DEFAULT_QUESTIONS

\* What the user types into the textarea, and what the recognizer hears.
TypedTexts == {"I debug the logs, step by step."}
SpeechTexts == {"um so I would stay calm and listen to them"}

\* A plausible slip: the index is advanced without the Math.min.
nextIdxUnclamped(i) == i + 1

\* line 119: Math.min(questions.length - 1, i + 1)
nextIdx(i) == Min(Len(questions) - 1, i + 1)

\* The recognizer can still call r.onresult: it listens, or it was stopped
\* and has not yet delivered what it holds.
StillDelivering(r) == r \in {"listening", "stopping"}

\* recogRef.current?.stop()
RecogStop(r) == IF r = "listening" THEN "stopping" ELSE r

\* lines 89-97, behind the button while it reads Start Recording
StartListening ==
    /\ ~listening
    /\ IF recState = "unsupported"
       THEN UNCHANGED <<transcript, recState, listening, clearedSinceStart>>
       ELSE /\ transcript' = ""
            /\ IF recState = "inactive"
               THEN /\ recState' = "listening"
                    /\ listening' = TRUE
                    /\ clearedSinceStart' = FALSE
               ELSE /\ recState' = recState
                    /\ listening' = FALSE
                    /\ clearedSinceStart' = clearedSinceStart
    /\ UNCHANGED <<currentIdx, history, asstVars, call, comp>>

\* lines 99-104, behind the button while it reads Stop Recording
StopListening ==
    /\ listening
    /\ recState' = RecogStop(recState)
    /\ listening' = FALSE
    /\ UNCHANGED <<currentIdx, transcript, history, clearedSinceStart,
                   asstVars, call, comp>>

\* line 161: stopListening(); submitAnswer() (lines 106-120)
SubmitAnswer ==
    /\ Len(history) < MaxHistory
    /\ LET q == questions[currentIdx + 1]
           s == scoreAnswer(transcript, q.keywords)
           entry == [question |-> q.text, transcript |-> transcript,
                     score |-> s.score, meta |-> s]
       IN  history' = Append(history, entry)
    /\ recState' = RecogStop(recState)
    /\ transcript' = ""
    /\ listening' = FALSE
    /\ currentIdx' = nextIdx(currentIdx)
    /\ clearedSinceStart' = StillDelivering(recState)
    /\ UNCHANGED <<asstVars, call, comp>>

\* lines 67-76: r.onresult with the final text of the event ("" when the
\* event holds interim results only).  After stop() the event is the last
\* one of the recording.
OnResult ==
    /\ StillDelivering(recState)
    /\ \E finalTrans \in {""} \cup SpeechTexts :
          /\ Len(transcript) + 1 + Len(finalTrans) <= MaxTranscript
          /\ transcript' = IF finalTrans # "" THEN transcript \o " " \o finalTrans
                           ELSE transcript
    /\ recState' = IF recState = "stopping" THEN "inactive" ELSE recState
    /\ clearedSinceStart' = (clearedSinceStart /\ recState # "stopping")
    /\ UNCHANGED <<currentIdx, listening, history, asstVars, call, comp>>

\* lines 77-81: r.onerror; the recognizer ends after an error
OnError ==
    /\ recState \in {"listening", "stopping"}
    /\ listening' = FALSE
    /\ recState' = "inactive"
    /\ clearedSinceStart' = FALSE
    /\ UNCHANGED <<currentIdx, transcript, history, asstVars, call, comp>>

\* line 166: the textarea's onChange
TypeAnswer ==
    /\ \E t \in TypedTexts : transcript' = t
    /\ UNCHANGED <<currentIdx, listening, history, recState, clearedSinceStart,
                   asstVars, call, comp>>

\* line 169: Clear
ClearTranscript ==
    /\ transcript' = ""
    /\ UNCHANGED <<currentIdx, listening, history, recState, clearedSinceStart,
                   asstVars, call, comp>>

\* line 170: Insert Example Phrase
InsertExample ==
    /\ Len(transcript) + 1 + Len(ExamplePhrase) <= MaxTranscript
    /\ transcript' = transcript \o " " \o ExamplePhrase
    /\ UNCHANGED <<currentIdx, listening, history, recState, clearedSinceStart,
                   asstVars, call, comp>>

\* line 191: Reset
Reset ==
    /\ currentIdx' = 0
    /\ history' = <<>>
    /\ transcript' = ""
    /\ clearedSinceStart' = StillDelivering(recState)
    /\ UNCHANGED <<listening, recState, asstVars, call, comp>>

(***************************************************************************)
(* answerQuery (src/utils/answerQuery.ts) and the AIAssistant component.   *)
(* The em dash and the bullet of the source's texts are not characters of  *)
(* a TLA+ string: they are written "--" and "*".                           *)
(***************************************************************************)
\* PROFILE (part_000, lines 34-54): the fields answerQuery reads
PROFILE ==
    [summary |-> "Frontend developer with 4+ years experience building mobile & web apps using React, Expo, TypeScript, and integrating .NET backends. Strong IT support background and fluent Arabic -- improving English to B2/C1.",
     skills |-> <<"React", "React Native (Expo)", "TypeScript", "Next.js", "Tailwind",
                  "Redux", ".NET API", "Secure Auth", "CI/CD", "NFC (DESFire EV1)">>,
     projects |-> <<
        [title |-> "Zajel - E-Commerce",
         summary |-> "React web + Flutter mobile + .NET backend. Led frontend architecture and documentation."],
        [title |-> "Delivery App (Expo)",
         summary |-> "Production-ready mobile app with secure auth and real-time maps."],
        [title |-> "NFC Wallet Prototype",
         summary |-> "Prototype for MIFARE DESFire EV1 wallet system."] >>]

\* Array.prototype.join
RECURSIVE join(_, _)
join(list, sep) ==
    IF list = <<>> THEN ""
    ELSE IF Len(list) = 1 THEN list[1]
    ELSE list[1] \o sep \o join(Tail(list), sep)

MobileAnswer == "I build mobile apps with Expo + React Native, using Expo Router, secure storage for tokens, and Reanimated for animations."

answerQuery(q, profile) ==
    LET qn == toLowerCase(trim(q))
        joined == toLowerCase(join(<<profile.summary>> \o profile.skills
                     \o [i \in 1..Len(profile.projects) |-> profile.projects[i].summary],
                     "\n"))
    IN  IF qn = ""
        THEN [answer |-> "Ask me anything about my skills, projects, or experience.",
              source |-> ""]
        ELSE IF includes(qn, "react") \/ includes(qn, "frontend")
        THEN [answer |-> profile.summary
                         \o " I focus on React, TypeScript and component-driven development.",
              source |-> "Summary * Skills"]
        ELSE IF includes(qn, "react native") \/ includes(qn, "expo")
                \/ includes(qn, "mobile")
        THEN [answer |-> MobileAnswer, source |-> "Projects * Skills"]
        ELSE IF includes(qn, "authentication") \/ includes(qn, "token")
        THEN [answer |-> "I implement secure authentication patterns: refresh tokens, secure storage (SecureStore / Keychain), and server-side validation in .NET backends.",
              source |-> "Projects * Experience"]
        ELSE IF includes(qn, "nfc") \/ includes(qn, "desfire")
        THEN [answer |-> "I prototyped NFC-based wallet systems using MIFARE DESFire EV1 with authentication and top-up logic.",
              source |-> "Projects"]
        ELSE IF includes(joined, qn)
        THEN [answer |-> "Yes -- that is part of my profile. See the Projects and Skills sections for more details.",
              source |-> "Profile"]
        ELSE [answer |-> "I could not find an exact answer in my profile. Try asking about: React, React Native, Authentication, NFC, Projects, or Skills.",
              source |-> ""]

\* What the visitor asks: a topic, as typed, with or without blanks around it.
Topics == {"", "React Native", "react native apps", "Do you know React Native?",
           "React", "frontend", "React Native frontend", "Expo", "mobile",
           "Authentication", "token", "NFC", "desfire", "Redux", "secure auth",
           "Projects", "Python", ".NET", "maps"}
Pads == {"", " ", "\t"}
Queries == {a \o t \o b : a \in Pads, t \in Topics, b \in Pads}

\* part_000 line 72: the input's onChange
SetQuery ==
    /\ \E q \in Queries : query' = q
    /\ UNCHANGED <<answer, source, uiVars, call, comp>>

\* part_000 line 73: the Ask button
Ask ==
    /\ answer' = answerQuery(query, PROFILE).answer
    /\ source' = answerQuery(query, PROFILE).source
    /\ UNCHANGED <<query, uiVars, call, comp>>

(***************************************************************************)
(* Specifications.                                                         *)
(***************************************************************************)
\* The component before any event, with a recognizer.
IdleUI ==
    /\ currentIdx = 0
    /\ listening = FALSE
    /\ transcript = ""
    /\ history = <<>>
    /\ recState = "inactive"
    /\ clearedSinceStart = FALSE

\* lines 49-53, and the feature detection of lines 56-62
InitUI ==
    /\ currentIdx = 0
    /\ listening = FALSE
    /\ transcript = ""
    /\ history = <<>>
    /\ recState \in {"inactive", "unsupported"}
    /\ clearedSinceStart = FALSE

InitAssistant ==
    /\ query = ""
    /\ answer = ""
    /\ source = ""

InitScore ==
    /\ IdleUI
    /\ InitAssistant
    /\ comp = NoComp
    /\ \E in \in ScoreInputs :
          call = [NoCall EXCEPT !.transcript = in[1], !.keywords = in[2]]

\* The InterviewSimulator component under its user and its recognizer.
Init ==
    /\ InitUI
    /\ InitAssistant
    /\ call = NoCall
    /\ comp = NoComp

Next ==
    \/ StartListening
    \/ StopListening
    \/ SubmitAnswer
    \/ OnResult
    \/ OnError
    \/ TypeAnswer
    \/ ClearTranscript
    \/ InsertExample
    \/ Reset

Spec == Init /\ [][Next]_vars

\* The AIAssistant component under its user.
InitAsk ==
    /\ IdleUI
    /\ InitAssistant
    /\ call = NoCall
    /\ comp = NoComp

NextAsk == SetQuery \/ Ask

SpecAssistant == InitAsk /\ [][NextAsk]_vars

\* Calls of scoreAnswer.
NextScore == ScoreCall

SpecScore == InitScore /\ [][NextScore]_vars

InitCompose ==
    /\ IdleUI
    /\ InitAssistant
    /\ call = NoCall
    /\ \E wc \in WordCounts, k \in 0..MaxListLen :
       \E u \in UniqueCounts(wc), f \in FillerCounts(wc), a \in 0..k, b \in 0..k :
          comp = [NoComp EXCEPT !.wordCount = wc, !.unique = u, !.fillerCount = f,
                                !.nKeywords = k, !.hitsA = a, !.hitsB = b]

NextCompose == ComposeCalls

SpecCompose == InitCompose /\ [][NextCompose]_vars

(***************************************************************************)
(* Properties of scoreAnswer.                                              *)
(***************************************************************************)
Normalized == normalizeText(call.transcript)

\* C1: for every transcript and every keyword list, the empty list
\* included, the score scoreAnswer returns is an integer between 0 and 100.
C1_ScoreInRange ==
    call.done =>
        /\ IsInteger(call.result.score)
        /\ 0 <= call.result.score.num
        /\ call.result.score.num <= 100

\* A call with the empty keyword list whose raw sum is not an integer.
C1_Witness ==
    /\ call.done
    /\ call.keywords = <<>>
    /\ call.result.wordCount = 1
    /\ call.result.score = Whole(60)

\* C2: for the empty transcript and any keyword list, scoreAnswer returns
\* score 50, wordCount 0, hits 0 and fillerCount 0.
C2_EmptyTranscript ==
    (call.done /\ call.transcript = "") =>
        call.result = [score |-> Whole(50), wordCount |-> 0, hits |-> 0,
                       fillerCount |-> 0]

\* C3: the score is the documented composition: the nearest integer, clamped
\* to [0, 100], of 50 + min(20, ratio*20) + min(15, min(wc,200)/200*15)
\* - min(15, 3*f) + min(10, u/max(1,wc)*10), with ratio = h/|keywords| and
\* ratio = 0 for the empty keyword list.  All terms are scaled by
\* S = 200 * max(1,|keywords|) * max(1,wc) to stay in the integers.
C3_Scale == 200 * Max(1, comp.nKeywords) * Max(1, comp.wordCount)

C3_ScaledSum ==
    LET S == C3_Scale
        K == Max(1, comp.nKeywords)
        W == Max(1, comp.wordCount)
    IN  50 * S
        + Min(20 * S, IF comp.nKeywords = 0 THEN 0 ELSE 20 * comp.hitsA * 200 * W)
        + Min(15 * S, 15 * Min(comp.wordCount, 200) * K * W)
        - Min(15, 3 * comp.fillerCount) * S
        + Min(10 * S, 10 * comp.unique * 200 * K)

C3_DocumentedComposition ==
    comp.done =>
        \E r \in {C3_ScaledSum \div C3_Scale, (C3_ScaledSum \div C3_Scale) + 1} :
            /\ 2 * C3_Scale * r >= 2 * C3_ScaledSum - C3_Scale
            /\ 2 * C3_Scale * r <= 2 * C3_ScaledSum + C3_Scale
            /\ comp.resA.score = Whole(Max(0, Min(100, r)))

\* The composition on a text longer than the cap, with one keyword of three
\* hit: the raw sum is not an integer and the length cap is active.
C3_Witness ==
    /\ comp.done
    /\ comp.nKeywords = 3
    /\ comp.hitsA = 1
    /\ comp.wordCount = LengthCap + 1
    /\ comp.unique = 2
    /\ comp.fillerCount = 1

\* C4: hits is the number of entries of the keyword list, duplicates counted
\* separately, whose lower-cased form is a substring of the normalized
\* transcript (so "React" is a hit for "I used reactjs extensively"), and
\* 0 <= hits <= |keyword list|.
C4_KeywordHits ==
    call.done =>
        /\ call.result.hits =
             Cardinality({i \in 1..Len(call.keywords) :
                             includes(Normalized, toLowerCase(call.keywords[i]))})
        /\ 0 <= call.result.hits
        /\ call.result.hits <= Len(call.keywords)
        /\ (call.transcript = "I used reactjs extensively"
              /\ call.keywords = <<"React">>) => call.result.hits = 1

\* An upper-case keyword hit in the middle of a word.
C4_Witness ==
    /\ call.done
    /\ call.transcript = "I used reactjs extensively"
    /\ call.keywords = <<"React">>
    /\ call.result.hits = 1

\* C5: fillerCount is the number of entries of the vocabulary {"um", "uh",
\* "like", "you know", "so", "actually"} that are substrings of the
\* normalized transcript, each counted once, so 0 <= fillerCount <= 6, and
\* "um so I like this" gives 3.
C5_Vocabulary == {"um", "uh", "like", "you know", "so", "actually"}

C5_FillerCount ==
    call.done =>
        /\ call.result.fillerCount =
             Cardinality({f \in C5_Vocabulary : includes(Normalized, f)})
        /\ 0 <= call.result.fillerCount
        /\ call.result.fillerCount <= 6
        /\ call.transcript = "um so I like this" => call.result.fillerCount = 3

\* A transcript that repeats its fillers: "um" three times, "so" twice.
C5_Witness ==
    /\ call.done
    /\ call.transcript = "um um, so... SO what? Umbrella"
    /\ call.result.fillerCount = 2

\* C6: of two results with the same keyword-list length, word count,
\* distinct-word count and filler count, the one with more keyword hits has
\* a score at least as large.
C6_MonotoneInHits ==
    (comp.done /\ comp.hitsA >= comp.hitsB) =>
        NumLeq(comp.resB.score, comp.resA.score)

\* Two such results, one with more hits, on a text longer than the cap.
C6_Witness ==
    /\ comp.done
    /\ comp.hitsA > comp.hitsB
    /\ comp.wordCount > LengthCap
    /\ comp.resA.score # comp.resB.score

\* C7: the normalized text holds only lower-case letters, digits and white
\* space, and every alphanumeric or white-space character of the input is
\* kept (a letter in its lower-case form).
C7_Alphanumeric == LowerLetters \cup UpperLetters \cup Digits \cup {"é"}

RECURSIVE C7_Keep(_)
C7_Keep(s) ==
    IF s = "" THEN ""
    ELSE IF Len(s) = 1 THEN (IF s \in C7_Alphanumeric \cup SpaceChars THEN s ELSE "")
    ELSE C7_Keep(SubSeq(s, 1, Len(s) \div 2))
         \o C7_Keep(SubSeq(s, (Len(s) \div 2) + 1, Len(s)))

C7_NormalizedAlphanumeric ==
    call.done =>
        /\ \A i \in 1..Len(Normalized) :
              Ch(Normalized, i) \in LowerLetters \cup Digits \cup SpaceChars
        /\ C7_Keep(Normalized) = C7_Keep(toLowerCase(call.transcript))

(***************************************************************************)
(* Properties of the components.                                           *)
(***************************************************************************)
C8_KeywordsOf(text) ==
    questions[CHOOSE i \in 1..Len(questions) : questions[i].text = text].keywords

C9_ReactNativeGetsMobileAnswer ==
    [][(answer' # answer \/ source' # source) =>
          ((/\ includes(toLowerCase(trim(query)), "react native")
            /\ ~includes(toLowerCase(trim(query)), "frontend"))
           => (answer' = MobileAnswer /\ source' = "Projects * Skills"))]_vars

\* C10: 0 <= currentIdx <= |questions| - 1 in every state; a Submit appends
\* exactly one history entry, for the question at the current index, and
\* advances currentIdx by one, except on the last question where it stays;
\* nothing else lengthens history or moves the index forward; Reset, the
\* only step that shortens history or moves the index back, sets currentIdx
\* to 0 and empties history and transcript.
C10_IndexAndHistory ==
    /\ [](currentIdx \in 0..(Len(questions) - 1))
    /\ [][/\ (history' # history /\ history' # <<>>) =>
               /\ history' = Append(history, history'[Len(history')])
               /\ history'[Len(history')].question = questions[currentIdx + 1].text
               /\ history'[Len(history')].transcript = transcript
               /\ currentIdx' = IF currentIdx = Len(questions) - 1
                                THEN currentIdx ELSE currentIdx + 1
          /\ currentIdx' > currentIdx => Len(history') = Len(history) + 1
          /\ (currentIdx' < currentIdx \/ Len(history') < Len(history)) =>
               (currentIdx' = 0 /\ history' = <<>> /\ transcript' = "")]_vars

\* More answers than questions, the extra one for the last question.
C10_Witness ==
    /\ Len(history) > Len(questions)
    /\ currentIdx = Len(questions) - 1
    /\ history[Len(history)].question = questions[Len(questions)].text
    /\ history[Len(questions)].question = questions[Len(questions)].text

\* C11: once Submit Answer or Reset has cleared the transcript, no final
\* speech result of a recording started before that is appended to the
\* transcript (such a result would also be missing from the transcript that
\* was scored for its recording): a step that appends a recognized text is
\* never taken while clearedSinceStart holds.
C11_NoStaleSpeechResult ==
    [][clearedSinceStart =>
          ~(\E f \in SpeechTexts : transcript' = transcript \o " " \o f)]_vars

\* C12: for each of the four default questions, a transcript in which every
\* keyword of the question occurs, case-insensitively, as a substring is
\* given hits = the number of keywords of the question.
C12_AllKeywordsCredited ==
    (/\ call.done
     /\ \E q \in 1..Len(DEFAULT_QUESTIONS) :
           call.keywords = DEFAULT_QUESTIONS[q].keywords
     /\ \A k \in 1..Len(call.keywords) :
           includes(toLowerCase(call.transcript), toLowerCase(call.keywords[k])))
    => call.result.hits = Len(call.keywords)

=============================================================================
